---------------------------- MODULE Spec2Model ----------------------------
(***************************************************************************)
(* IBusBM: the FlySky IBus receiver of src/src/IBusBM.cpp.                 *)
(*                                                                         *)
(* The state is the IBusBM object (parser, channel store, sensor registry, *)
(* counters) together with the Stream it is bound to: rx, the bytes that   *)
(* stream->read() will deliver, and out, the bytes stream->write() has     *)
(* queued.  One action is one iteration of the while loop of loop() (one   *)
(* per case of its switch), or one call of a host-facing method.           *)
(*                                                                         *)
(* millis() is not kept; elapsed is millis() - last, saturated at          *)
(* PROTOCOL_TIMEGAP (the code only compares it with that constant).        *)
(***************************************************************************)
EXTENDS Integers, Sequences, FiniteSets, TLC

VARIABLES
    state,        \* parser state tag
    elapsed,      \* millis() - last, saturated at PROTOCOL_TIMEGAP
    ptr,          \* write offset into buffer
    len,          \* expected payload length
    chksum,       \* uint16_t checksum accumulator
    lchksum,      \* uint8_t received checksum low byte
    buffer,       \* uint8_t buffer[PROTOCOL_LENGTH]
    channel,      \* uint16_t channel[PROTOCOL_CHANNELS]
    sensorCount,  \* number of registered sensors
    sensorType,   \* uint8_t sensorType[], indexed by address
    sensorValue,  \* uint16_t sensorValue[], indexed by address
    enablesensor, \* telemetry enabled
    cnt_err,      \* length bytes rejected
    cnt_rec,      \* channel frames received
    cnt_poll,     \* discover polls answered
    cnt_sensor,   \* value polls answered
    rx,           \* stream input: bytes not yet read
    out,          \* stream output: bytes written, not yet sent
    frame,        \* the frame whose bytes were last put into rx, or << >>
    looped,       \* whether frame is a reply of this object, looped back
    start,        \* how the reading of frame began: "idle" / "midframe" when
                  \* its first byte was read after a timing gap (with the
                  \* reader idle / inside an earlier frame) and no gap came
                  \* since, "none" otherwise
    fresh,        \* no byte was read after a timing gap since begin()
    returned,     \* <<channelNr, value>> when the last step was a call of
                  \* readChannel(channelNr) returning value, << >> otherwise
    scenario      \* which transmitter / host program drives the object

vars == <<state, elapsed, ptr, len, chksum, lchksum, buffer, channel,
          sensorCount, sensorType, sensorValue, enablesensor,
          cnt_err, cnt_rec, cnt_poll, cnt_sensor, rx, out, frame, looped,
          start, fresh, returned, scenario>>

parserVars == <<state, ptr, len, chksum, lchksum, buffer>>
registryVars == <<sensorCount, sensorType, sensorValue>>
counterVars == <<cnt_err, cnt_rec, cnt_poll, cnt_sensor>>

-----------------------------------------------------------------------------
(* Protocol constants (IBusBM.h) *)

PROTOCOL_LENGTH == 32
PROTOCOL_OVERHEAD == 3
PROTOCOL_TIMEGAP == 3
PROTOCOL_CHANNELS == 10
PROTOCOL_COMMAND40 == 64
PROTOCOL_COMMAND_DISCOVER == 128
PROTOCOL_COMMAND_TYPE == 144
PROTOCOL_COMMAND_VALUE == 160
SENSORMAX == 10

(* Bounds of the model *)

MaxEvents == 2    \* counted events (sum of the four counters) in one run
MaxOut == 6       \* bytes the output stream holds before they are sent

-----------------------------------------------------------------------------
(* Fixed-width arithmetic *)

Byte == 0..255
Word == 0..65535

Lo8(x) == x % 256
Hi8(x) == (x \div 256) % 256
U16(x) == x % 65536
LowNibble(b) == b % 16
HighNibble(b) == (b \div 16) * 16

\* C arrays: element i (from 0) of the array kept as the tuple arr
At(arr, i) == arr[i + 1]
Put(arr, i, v) == [arr EXCEPT ![i + 1] = v]

RECURSIVE Sum(_)
Sum(s) == IF s = << >> THEN 0 ELSE Head(s) + Sum(Tail(s))

Pow2(k) == CASE k = 0 -> 1 [] k = 1 -> 2 [] k = 2 -> 4 [] k = 3 -> 8
             [] k = 4 -> 16 [] k = 5 -> 32 [] k = 6 -> 64 [] OTHER -> 128

FlipBit(b, k) == IF (b \div Pow2(k)) % 2 = 1 THEN b - Pow2(k) ELSE b + Pow2(k)


-----------------------------------------------------------------------------
(* loop(): the pure parts of one iteration *)

\* now - last >= PROTOCOL_TIMEGAP
TimeGap(e) == e >= PROTOCOL_TIMEGAP

\* the state the switch sees: a gap forces GET_LENGTH
SwitchState(st, e) == IF TimeGap(e) THEN "GET_LENGTH" ELSE st

\* faulty variant: the upper bound left out
LengthAccepted_NoUpper(v) == v > PROTOCOL_OVERHEAD

\* faulty variant: the lower bound taken inclusive
LengthAccepted_Inclusive(v) == v <= PROTOCOL_LENGTH /\ v >= PROTOCOL_OVERHEAD

\* case GET_LENGTH: v <= PROTOCOL_LENGTH && v > PROTOCOL_OVERHEAD
LengthAccepted(v) == v <= PROTOCOL_LENGTH /\ v > PROTOCOL_OVERHEAD

\* faulty variant: the length byte left out of the checksum
ChksumInit_NoLength(v) == 65535

\* chksum = 0xFFFF - v
ChksumInit(v) == U16(65535 - v)

\* chksum -= v, on a uint16_t
ChksumSub(chk, v) == (chk + 65536 - v) % 65536

\* faulty variant: only the high byte compared
ChecksumMatches_HighByteOnly(chk, v, l) == chk \div 256 = v

\* faulty variant: only the low byte compared
ChecksumMatches_LowByteOnly(chk, v, l) == chk % 256 = l

\* chksum == (v << 8) + lchksum
ChecksumMatches(chk, v, l) == chk = v * 256 + l

\* channel[i / 2] = buffer[i] | (buffer[i + 1] << 8), i = 1, 3, ..
\* (element c of the tuple is channel[c - 1], written from i = 2 * c - 1)
DecodeChannels(buf) ==
    [c \in 1..PROTOCOL_CHANNELS |-> At(buf, 2 * c - 1) + 256 * At(buf, 2 * c)]

\* faulty variant: the len==1 test left out
SensorRequest_AnyLength(b0, n, count, en) ==
    /\ LowNibble(b0) <= count
    /\ LowNibble(b0) > 0
    /\ en

\* adr<=sensorCount && adr>0 && len==1 && enablesensor
SensorRequest(b0, n, count, en) ==
    /\ LowNibble(b0) <= count
    /\ LowNibble(b0) > 0
    /\ n = 1
    /\ en

\* faulty variant: the length byte left out of the sum
DiscoverChksum_NoLength(adr) == U16(65535 - (PROTOCOL_COMMAND_DISCOVER + adr))

\* 0xFFFF - (0x04 + PROTOCOL_COMMAND_DISCOVER + adr), stored in a uint16_t
DiscoverChksum(adr) == U16(65535 - (4 + PROTOCOL_COMMAND_DISCOVER + adr))

DiscoverBytes(adr) == <<4, Lo8(PROTOCOL_COMMAND_DISCOVER + adr)>>

\* faulty variant: the constant fourth byte left out of the sum
TypeChksum_NoConstant(adr, type) ==
    U16(65535 - (6 + PROTOCOL_COMMAND_TYPE + adr + type))

TypeChksum(adr, type) == U16(65535 - (6 + PROTOCOL_COMMAND_TYPE + adr + type + 2))

TypeBytes(adr, type) == <<6, Lo8(PROTOCOL_COMMAND_TYPE + adr), Lo8(type), 2>>

ValueChksum(adr, value) ==
    U16(65535 - (6 + PROTOCOL_COMMAND_VALUE + adr + (value \div 256) + (value % 256)))

\* faulty variant: the value written high byte first
ValueBytes_BigEndian(adr, value) ==
    <<6, Lo8(PROTOCOL_COMMAND_VALUE + adr), Lo8(value \div 256), Lo8(value % 256)>>

ValueBytes(adr, value) ==
    <<6, Lo8(PROTOCOL_COMMAND_VALUE + adr), Lo8(value % 256), Lo8(value \div 256)>>

\* faulty variant: the write of the high byte left out
ChksumBytes_LowOnly(chk) == <<chk % 256>>

\* stream->write(chksum & 0x0ff); stream->write(chksum >> 8);
ChksumBytes(chk) == <<chk % 256, chk \div 256>>

\* faulty variant: the default case does not clear adr, so the checksum
\* bytes are written for an unknown command
SensorReply_DefaultWritesChksum(b0, chk, types, values) ==
    LET adr == LowNibble(b0)
        cmd == HighNibble(b0)
    IN  CASE cmd = PROTOCOL_COMMAND_DISCOVER ->
               [written |-> DiscoverBytes(adr) \o ChksumBytes(DiscoverChksum(adr)),
                chksum |-> DiscoverChksum(adr), poll |-> 1, sensor |-> 0]
          [] cmd = PROTOCOL_COMMAND_TYPE ->
               [written |-> TypeBytes(adr, At(types, adr))
                              \o ChksumBytes(TypeChksum(adr, At(types, adr))),
                chksum |-> TypeChksum(adr, At(types, adr)), poll |-> 0, sensor |-> 0]
          [] cmd = PROTOCOL_COMMAND_VALUE ->
               [written |-> ValueBytes(adr, At(values, adr))
                              \o ChksumBytes(ValueChksum(adr, At(values, adr))),
                chksum |-> ValueChksum(adr, At(values, adr)), poll |-> 0, sensor |-> 1]
          [] OTHER ->
               [written |-> ChksumBytes(chk), chksum |-> chk, poll |-> 0, sensor |-> 0]

\* The switch on buffer[0] & 0x0f0 of a sensor request, with the trailing
\* if (adr>0): the bytes written, the new chksum and the counter increments.
SensorReply(b0, chk, types, values) ==
    LET adr == LowNibble(b0)
        cmd == HighNibble(b0)
    IN  CASE cmd = PROTOCOL_COMMAND_DISCOVER ->
               [written |-> DiscoverBytes(adr) \o ChksumBytes(DiscoverChksum(adr)),
                chksum |-> DiscoverChksum(adr), poll |-> 1, sensor |-> 0]
          [] cmd = PROTOCOL_COMMAND_TYPE ->
               [written |-> TypeBytes(adr, At(types, adr))
                              \o ChksumBytes(TypeChksum(adr, At(types, adr))),
                chksum |-> TypeChksum(adr, At(types, adr)), poll |-> 0, sensor |-> 0]
          [] cmd = PROTOCOL_COMMAND_VALUE ->
               [written |-> ValueBytes(adr, At(values, adr))
                              \o ChksumBytes(ValueChksum(adr, At(values, adr))),
                chksum |-> ValueChksum(adr, At(values, adr)), poll |-> 0, sensor |-> 1]
          [] OTHER ->
               [written |-> << >>, chksum |-> chk, poll |-> 0, sensor |-> 0]

\* faulty variant: the reader goes back to the length state after a frame
AfterFrame_Length == "GET_LENGTH"

\* case GET_CHKSUMH: state = DISCARD, whether the checksum matched or not
AfterFrame == "DISCARD"

\* faulty variant: the channels are decoded before the checksum is tested
Dispatch_DecodesUnchecked(v, buf, n, chk, l, chan, count, types, values, en) ==
    LET idle == [channel |-> chan, rec |-> 0, written |-> << >>,
                 chksum |-> chk, poll |-> 0, sensor |-> 0]
    IN  IF At(buf, 0) = PROTOCOL_COMMAND40
        THEN [idle EXCEPT !.channel = DecodeChannels(buf),
                          !.rec = IF ChecksumMatches(chk, v, l) THEN 1 ELSE 0]
        ELSE IF ChecksumMatches(chk, v, l) /\ SensorRequest(At(buf, 0), n, count, en)
             THEN LET r == SensorReply(At(buf, 0), chk, types, values)
                  IN  [idle EXCEPT !.written = r.written, !.chksum = r.chksum,
                                   !.poll = r.poll, !.sensor = r.sensor]
        ELSE idle

\* case GET_CHKSUMH, everything before state = DISCARD: what the frame in
\* buffer does once its checksum high byte v is read.
Dispatch(v, buf, n, chk, l, chan, count, types, values, en) ==
    LET idle == [channel |-> chan, rec |-> 0, written |-> << >>,
                 chksum |-> chk, poll |-> 0, sensor |-> 0]
    IN  IF ~ChecksumMatches(chk, v, l) THEN idle
        ELSE IF At(buf, 0) = PROTOCOL_COMMAND40
             THEN [idle EXCEPT !.channel = DecodeChannels(buf), !.rec = 1]
        ELSE IF SensorRequest(At(buf, 0), n, count, en)
             THEN LET r == SensorReply(At(buf, 0), chk, types, values)
                  IN  [idle EXCEPT !.written = r.written, !.chksum = r.chksum,
                                   !.poll = r.poll, !.sensor = r.sensor]
        ELSE idle

-----------------------------------------------------------------------------
(* Host-facing methods *)

\* faulty variant: an index past the end wraps around instead of giving 0
readChannel_Wrapped(chan, channelNr) == At(chan, channelNr % PROTOCOL_CHANNELS)

\* readChannel(channelNr)
readChannel(chan, channelNr) ==
    IF channelNr < PROTOCOL_CHANNELS THEN At(chan, channelNr) ELSE 0

\* faulty variant: the capacity test off by one
addSensor_NoCap(count, types, type) ==
    IF count <= SENSORMAX
    THEN [count |-> count + 1, types |-> Put(types, count + 1, type),
          ret |-> count + 1]
    ELSE [count |-> count, types |-> types, ret |-> count]

\* addSensor(type): the new registry and the value returned
addSensor(count, types, type) ==
    IF count < SENSORMAX
    THEN [count |-> count + 1, types |-> Put(types, count + 1, type),
          ret |-> count + 1]
    ELSE [count |-> count, types |-> types, ret |-> count]

\* setSensorMeasurement(adr, value)
setSensorMeasurement(count, values, adr, value) ==
    IF adr <= count THEN Put(values, adr, value) ELSE values

-----------------------------------------------------------------------------
(* The transmitter: IBus frames as they come over the line *)

\* 0xFFFF minus the sum of the bytes, as the transmitter computes it
FrameChecksum(bytes) == U16(65535 - Sum(bytes))

\* <len><cmd><data....><chkl><chkh>
Frame(payload) ==
    LET body == <<Len(payload) + PROTOCOL_OVERHEAD>> \o payload
        ck == FrameChecksum(body)
    IN  body \o <<ck % 256, ck \div 256>>

RECURSIVE LittleEndian(_)
LittleEndian(vals) ==
    IF vals = << >> THEN << >>
    ELSE <<Head(vals) % 256, Head(vals) \div 256>> \o LittleEndian(Tail(vals))

\* a channel-set frame carrying Len(vals) channels
ChannelFrame(vals) == Frame(<<PROTOCOL_COMMAND40>> \o LittleEndian(vals))

\* a sensor poll: one command byte, no further payload
PollFrame(cmd, adr) == Frame(<<cmd + adr>>)

\* the frame f with one bit of its low (which = 0) or high (which = 1)
\* checksum byte flipped
CorruptChecksum(f, which, bit) ==
    LET k == Len(f) - 1 + which
    IN  [f EXCEPT ![k] = FlipBit(f[k], bit)]

\* the frame f with its length byte replaced by L
WithLength(f, L) == <<L>> \o Tail(f)

\* the example of the protocol comment: 14 channels, checksum DA F3
ExampleFrame ==
    <<32, 64, 219, 5, 220, 5, 84, 5, 220, 5, 232, 3, 208, 7, 210, 5, 232, 3,
      220, 5, 220, 5, 220, 5, 220, 5, 220, 5, 220, 5, 218, 243>>

FlipBits == {0, 7}
BadLengths == {3, 33}             \* PROTOCOL_OVERHEAD, PROTOCOL_LENGTH + 1

Corrupted(F) ==
    {CorruptChecksum(f, which, bit) : f \in F, which \in {0, 1}, bit \in FlipBits}

Malformed(F) == {WithLength(f, L) : f \in F, L \in BadLengths}

Scenarios == {"servo", "example", "resync", "discover", "type", "value",
              "ignored", "registry", "measure"}

\* the frames the transmitter sends in each scenario
TxFrames(s) ==
    CASE s = "servo" ->
           {ChannelFrame(<< >>), ChannelFrame(<<1499>>), ChannelFrame(<<1000>>),
            ChannelFrame(<<1000, 1499>>)}
             \cup Corrupted({ChannelFrame(<<1000>>)})
             \cup {CorruptChecksum(ChannelFrame(<<1499, 1000>>), 1, 0)}
             \cup Malformed({ChannelFrame(<<1499>>)})
      [] s = "example" ->
           {ExampleFrame, CorruptChecksum(ExampleFrame, 1, 0), ChannelFrame(<<1000>>)}
      [] s = "resync" ->
           {ChannelFrame(<< >>),
            CorruptChecksum(ChannelFrame(<<1499>>), 0, 0),
            PollFrame(PROTOCOL_COMMAND_DISCOVER, 1)}
      [] s = "discover" ->
           {PollFrame(PROTOCOL_COMMAND_DISCOVER, adr) : adr \in {1, 2}}
      [] s = "type" ->
           {PollFrame(PROTOCOL_COMMAND_TYPE, adr) : adr \in {1, 2}}
      [] s = "value" ->
           {PollFrame(PROTOCOL_COMMAND_VALUE, adr) : adr \in {1, 2}}
             \cup Corrupted({PollFrame(PROTOCOL_COMMAND_VALUE, 1)})
      [] s = "ignored" ->
           {PollFrame(176, 1), PollFrame(PROTOCOL_COMMAND_DISCOVER, 0),
            PollFrame(PROTOCOL_COMMAND_VALUE, 2),
            Frame(<<PROTOCOL_COMMAND_TYPE + 1, 0>>),
            PollFrame(PROTOCOL_COMMAND_DISCOVER, 1), ChannelFrame(<<1000>>)}
      [] OTHER -> {}

\* the host program of each scenario: what it passes to begin(), addSensor(),
\* setSensorMeasurement() and readChannel(), and how many times it calls
\* addSensor()
BeginArgs(s) ==
    CASE s \in {"servo", "example"} -> {FALSE}
      [] s \in {"discover", "type", "value", "resync"} -> {TRUE}
      [] OTHER -> BOOLEAN
Rebegins(s) == s \in {"registry", "ignored"}
SensorTypes(s, count) ==
    IF s \in {"registry", "type"} THEN {1, 3} ELSE {1 + 2 * (count % 2)}
HostSensors(s) ==
    CASE s = "registry" -> SENSORMAX + 1
      [] s \in {"servo", "example"} -> 0
      [] s = "discover" -> 3
      [] s \in {"ignored", "resync"} -> 1
      [] OTHER -> 2
MeasAddrs(s) ==
    CASE s = "value" -> {1, 2}
      [] s = "measure" -> {0, 1, 2, 3, SENSORMAX + 1, 255}
      [] OTHER -> {}
MeasValues(s) == {4660, 65535}           \* 0x1234, 0xFFFF
ReadIndexes(s) ==
    CASE s = "servo" -> {PROTOCOL_CHANNELS}
      [] s = "example" -> {0, 1, PROTOCOL_CHANNELS - 1, PROTOCOL_CHANNELS, 255}
      [] OTHER -> {}
\* whether bytes of one frame may be read with a timing gap between them
Jitter(s) == s = "resync"
Delays == {PROTOCOL_TIMEGAP - 1, PROTOCOL_TIMEGAP}

-----------------------------------------------------------------------------
(* Actions *)

EventCount == cnt_err + cnt_rec + cnt_poll + cnt_sensor

\* faulty variant: begin() leaves the reader waiting for a length byte
Begin_InGetLength(en) ==
    /\ state' = "GET_LENGTH"
    /\ elapsed' = 0
    /\ ptr' = 0
    /\ len' = 0
    /\ chksum' = 0
    /\ lchksum' = 0
    /\ enablesensor' = en
    /\ start' = "none"
    /\ fresh' = TRUE
    /\ returned' = << >>
    /\ UNCHANGED <<buffer, channel, registryVars, counterVars, rx, out, frame,
                   looped, scenario>>

\* begin(stream, enablesensor)
Begin(en) ==
    /\ state' = "DISCARD"
    /\ elapsed' = 0
    /\ ptr' = 0
    /\ len' = 0
    /\ chksum' = 0
    /\ lchksum' = 0
    /\ enablesensor' = en
    /\ start' = "none"
    /\ fresh' = TRUE
    /\ returned' = << >>
    /\ UNCHANGED <<buffer, channel, registryVars, counterVars, rx, out, frame,
                   looped, scenario>>

\* d milliseconds pass
Tick(d) ==
    /\ elapsed < PROTOCOL_TIMEGAP
    /\ elapsed' = IF elapsed + d < PROTOCOL_TIMEGAP THEN elapsed + d
                  ELSE PROTOCOL_TIMEGAP
    /\ returned' = << >>
    /\ UNCHANGED <<parserVars, channel, registryVars, enablesensor, counterVars,
                   rx, out, frame, looped, start, fresh, scenario>>

\* the transmitter sends a frame; its bytes become available to read
Send(f) ==
    /\ rx = << >>
    /\ out = << >>
    /\ rx' = f
    /\ frame' = f
    /\ looped' = FALSE
    /\ start' = "none"
    /\ returned' = << >>
    /\ UNCHANGED <<parserVars, elapsed, channel, registryVars, enablesensor,
                   counterVars, out, fresh, scenario>>

\* the UART sends the written bytes; on a single-wire link they may come back
\* on the receive side
Transmit ==
    /\ out # << >>
    /\ out' = << >>
    /\ \/ UNCHANGED <<rx, frame, looped, start>>
       \/ /\ rx = << >>
          /\ rx' = out
          /\ frame' = out
          /\ looped' = TRUE
          /\ start' = "none"
    /\ returned' = << >>
    /\ UNCHANGED <<parserVars, elapsed, channel, registryVars, enablesensor,
                   counterVars, fresh, scenario>>

\* the reader is inside a frame
MidFrame == {"GET_DATA", "GET_CHKSUML", "GET_CHKSUMH"}

\* uint8_t v = stream->read(), with last = now
ReadByte ==
    /\ rx # << >>
    /\ rx' = Tail(rx)
    /\ UNCHANGED <<frame, looped>>
    /\ elapsed' = 0
    /\ fresh' = (fresh /\ ~TimeGap(elapsed))
    /\ returned' = << >>
    /\ start' = IF rx = frame
                THEN IF ~TimeGap(elapsed) THEN "none"
                     ELSE IF state \in MidFrame THEN "midframe" ELSE "idle"
                ELSE IF TimeGap(elapsed) THEN "none" ELSE start

\* case GET_LENGTH
LoopGetLength ==
    /\ ReadByte
    /\ SwitchState(state, elapsed) = "GET_LENGTH"
    /\ LET v == Head(rx)
       IN  IF LengthAccepted(v)
           THEN /\ ptr' = 0
                /\ len' = v - PROTOCOL_OVERHEAD
                /\ chksum' = ChksumInit(v)
                /\ state' = "GET_DATA"
                /\ UNCHANGED cnt_err
           ELSE /\ EventCount < MaxEvents
                /\ cnt_err' = cnt_err + 1
                /\ state' = "DISCARD"
                /\ UNCHANGED <<ptr, len, chksum>>
    /\ UNCHANGED <<lchksum, buffer, channel, registryVars, enablesensor,
                   cnt_rec, cnt_poll, cnt_sensor, out, scenario>>

\* case GET_DATA
LoopGetData ==
    /\ ReadByte
    /\ SwitchState(state, elapsed) = "GET_DATA"
    /\ LET v == Head(rx)
       IN  /\ buffer' = Put(buffer, ptr, v)
           /\ ptr' = ptr + 1
           /\ chksum' = ChksumSub(chksum, v)
           /\ state' = IF ptr + 1 = len THEN "GET_CHKSUML" ELSE "GET_DATA"
    /\ UNCHANGED <<len, lchksum, channel, registryVars, enablesensor,
                   counterVars, out, scenario>>

\* case GET_CHKSUML
LoopGetChksumL ==
    /\ ReadByte
    /\ SwitchState(state, elapsed) = "GET_CHKSUML"
    /\ lchksum' = Head(rx)
    /\ state' = "GET_CHKSUMH"
    /\ UNCHANGED <<ptr, len, chksum, buffer, channel, registryVars, enablesensor,
                   counterVars, out, scenario>>

\* case GET_CHKSUMH
LoopGetChksumH ==
    /\ ReadByte
    /\ SwitchState(state, elapsed) = "GET_CHKSUMH"
    /\ LET d == Dispatch(Head(rx), buffer, len, chksum, lchksum, channel,
                         sensorCount, sensorType, sensorValue, enablesensor)
       IN  /\ EventCount + d.rec + d.poll + d.sensor <= MaxEvents
           /\ Len(out) + Len(d.written) <= MaxOut
           /\ channel' = d.channel
           /\ cnt_rec' = cnt_rec + d.rec
           /\ cnt_poll' = cnt_poll + d.poll
           /\ cnt_sensor' = cnt_sensor + d.sensor
           /\ out' = out \o d.written
           /\ chksum' = d.chksum
    /\ state' = AfterFrame
    /\ UNCHANGED <<ptr, len, lchksum, buffer, registryVars, enablesensor,
                   cnt_err, scenario>>

\* case DISCARD
LoopDiscard ==
    /\ ReadByte
    /\ SwitchState(state, elapsed) = "DISCARD"
    /\ UNCHANGED <<parserVars, channel, registryVars, enablesensor, counterVars,
                   out, scenario>>

\* the host calls addSensor(type)
AddSensor(type) ==
    /\ LET r == addSensor(sensorCount, sensorType, type)
       IN  /\ sensorCount' = r.count
           /\ sensorType' = r.types
    /\ returned' = << >>
    /\ UNCHANGED <<parserVars, elapsed, channel, sensorValue, enablesensor,
                   counterVars, rx, out, frame, looped, start, fresh, scenario>>

\* the host calls setSensorMeasurement(adr, value)
SetSensorMeasurement(adr, value) ==
    /\ sensorValue' = setSensorMeasurement(sensorCount, sensorValue, adr, value)
    /\ returned' = << >>
    /\ UNCHANGED <<parserVars, elapsed, channel, sensorCount, sensorType,
                   enablesensor, counterVars, rx, out, frame, looped, start,
                   fresh, scenario>>

\* the host calls readChannel(channelNr)
ReadChannel(channelNr) ==
    /\ returned' = <<channelNr, readChannel(channel, channelNr)>>
    /\ UNCHANGED <<parserVars, elapsed, channel, registryVars, enablesensor,
                   counterVars, rx, out, frame, looped, start, fresh, scenario>>

-----------------------------------------------------------------------------
(* Specification *)

\* the object as constructed (zero-initialised members), then begin()
Init ==
    /\ scenario \in Scenarios
    /\ state = "DISCARD"
    /\ elapsed = 0
    /\ ptr = 0
    /\ len = 0
    /\ chksum = 0
    /\ lchksum = 0
    /\ enablesensor \in BeginArgs(scenario)
    /\ buffer = [i \in 1..PROTOCOL_LENGTH |-> 0]
    /\ channel = [c \in 1..PROTOCOL_CHANNELS |-> 0]
    /\ sensorCount = 0
    /\ sensorType = [a \in 1..(SENSORMAX + 1) |-> 0]
    /\ sensorValue = [a \in 1..(SENSORMAX + 1) |-> 0]
    /\ cnt_err = 0
    /\ cnt_rec = 0
    /\ cnt_poll = 0
    /\ cnt_sensor = 0
    /\ rx = << >>
    /\ out = << >>
    /\ frame = << >>
    /\ looped = FALSE
    /\ start = "none"
    /\ fresh = TRUE
    /\ returned = << >>

HostBegin == Rebegins(scenario) /\ \E en \in BeginArgs(scenario) : Begin(en)
TimePasses ==
    \/ rx = << >> /\ \E d \in Delays : Tick(d)
    \/ rx # << >> /\ Jitter(scenario) /\ Tick(PROTOCOL_TIMEGAP)
TxSend == \E f \in TxFrames(scenario) : Send(f)
HostAddSensor ==
    /\ sensorCount < HostSensors(scenario)
    /\ \E type \in SensorTypes(scenario, sensorCount) : AddSensor(type)
HostSetSensorMeasurement ==
    \E adr \in MeasAddrs(scenario), value \in MeasValues(scenario) :
        SetSensorMeasurement(adr, value)
HostReadChannel == \E n \in ReadIndexes(scenario) : ReadChannel(n)

Next ==
    \/ HostBegin
    \/ TimePasses
    \/ TxSend
    \/ Transmit
    \/ LoopGetLength
    \/ LoopGetData
    \/ LoopGetChksumL
    \/ LoopGetChksumH
    \/ LoopDiscard
    \/ HostAddSensor
    \/ HostSetSensorMeasurement
    \/ HostReadChannel

Spec == Init /\ [][Next]_vars

\* one iteration of while (stream->available() > 0)
LoopIteration ==
    \/ LoopGetLength
    \/ LoopGetData
    \/ LoopGetChksumL
    \/ LoopGetChksumH
    \/ LoopDiscard

\* loop() is called again and again by the host's main loop and, once
\* called, iterates as long as a byte is available
FairSpec == Spec /\ WF_vars(LoopIteration)

-----------------------------------------------------------------------------
(* Vocabulary of the properties *)

\* one iteration of the while loop of loop(): a byte is read
LoopStep == rx # << >> /\ rx' = Tail(rx)

\* the host calls setSensorMeasurement(adr, value) / addSensor(type)
SetStep(adr, value) == SetSensorMeasurement(adr, value)
AddStep(type) == AddSensor(type)

\* f is a well-formed frame: length byte, payload, checksum of the transmitter
ValidFrame(f) ==
    /\ Len(f) > PROTOCOL_OVERHEAD
    /\ Len(f) <= PROTOCOL_LENGTH
    /\ f[1] = Len(f)
    /\ f[Len(f) - 1] + 256 * f[Len(f)] = FrameChecksum(SubSeq(f, 1, Len(f) - 2))

\* the number of channels a channel-set frame of this length carries
NChannels(f) == (Len(f) - 4) \div 2

\* f is a valid channel-set frame carrying at most PROTOCOL_CHANNELS channels
ChannelSetFrame(f) ==
    /\ ValidFrame(f)
    /\ f[2] = PROTOCOL_COMMAND40
    /\ (Len(f) - 4) % 2 = 0
    /\ NChannels(f) <= PROTOCOL_CHANNELS

\* the little-endian 16-bit value at payload offset 2i of frame f
FrameChannel(f, i) == f[3 + 2 * i] + 256 * f[4 + 2 * i]

\* The reader started on the first byte of frame (after a timing gap), has
\* read all of it but the last byte without a gap, and reads that byte now.
AtLastByte ==
    /\ start # "none"
    /\ ~TimeGap(elapsed)
    /\ Len(rx) = 1

\* frame has been read to its end by the reader, as one frame that started
\* after a timing gap
ReadAsFrame ==
    /\ rx = << >>
    /\ frame # << >>
    /\ start # "none"

Channels == 0..(PROTOCOL_CHANNELS - 1)

-----------------------------------------------------------------------------
(* C1: every checksum-valid channel-set frame carrying N <= PROTOCOL_CHANNELS
   channels, read by loop() after a timing gap, leaves readChannel(i) equal to
   the little-endian value at payload offset 2i for i < N, and equal to what
   readChannel(i) returned before the frame for i >= N. *)
C1_ChannelSetFrame ==
    [][(LoopStep /\ AtLastByte /\ ChannelSetFrame(frame)) =>
          \A i \in Channels :
              readChannel(channel', i) =
                  IF i < NChannels(frame) THEN FrameChannel(frame, i)
                  ELSE readChannel(channel, i)]_vars

\* C1, the part the code keeps: the channels the frame carries are decoded
C1_CarriedChannels ==
    [][(LoopStep /\ AtLastByte /\ ChannelSetFrame(frame)) =>
          \A i \in Channels :
              i < NChannels(frame) =>
                  readChannel(channel', i) = FrameChannel(frame, i)]_vars

\* C1, the example of the protocol comment
C1_Example ==
    (ReadAsFrame /\ frame = ExampleFrame) =>
        /\ readChannel(channel, 0) = 1499
        /\ readChannel(channel, 1) = 1500
        /\ readChannel(channel, 4) = 1000

-----------------------------------------------------------------------------
(* C2: a frame whose received checksum differs from the correct one by one
   flipped bit in either checksum byte changes no channel value and no sensor
   entry (type, value, sensor count), whatever state the reader and the host
   are in when its bytes are read. *)

\* f is a well-formed frame but for one flipped bit in a checksum byte
CorruptedFrame(f) ==
    /\ Len(f) > PROTOCOL_OVERHEAD
    /\ Len(f) <= PROTOCOL_LENGTH
    /\ f[1] = Len(f)
    /\ LET ck == FrameChecksum(SubSeq(f, 1, Len(f) - 2))
           lo == f[Len(f) - 1]
           hi == f[Len(f)]
       IN  \/ hi = ck \div 256 /\ \E b \in 0..7 : lo = FlipBit(ck % 256, b)
           \/ lo = ck % 256 /\ \E b \in 0..7 : hi = FlipBit(ck \div 256, b)

C2_CorruptedChecksum ==
    [][(LoopStep /\ CorruptedFrame(frame)) =>
          (channel' = channel /\ UNCHANGED registryVars)]_vars

\* a corrupted channel-set frame was read to its end as one frame, and the
\* channel it carries kept another value
C2_Witness ==
    /\ ReadAsFrame
    /\ CorruptedFrame(frame)
    /\ frame[2] = PROTOCOL_COMMAND40
    /\ Len(frame) = 6
    /\ cnt_rec > 0
    /\ readChannel(channel, 0) # FrameChannel(frame, 0)

-----------------------------------------------------------------------------
(* C3: a frame whose length byte is outside (3, 0x20] and that starts after a
   timing gap increases the error counter by exactly 1: by 1 at its length
   byte, and not again at its remaining bytes, which arrive without a gap;
   a valid frame that follows after a timing gap is decoded correctly. *)

LengthInRange(v) == 3 < v /\ v <= 32

C3_MalformedLength ==
    [][LoopStep =>
          /\ (rx = frame /\ TimeGap(elapsed) /\ ~LengthInRange(frame[1])) =>
                 (cnt_err' = cnt_err + 1 /\ state' = "DISCARD")
          /\ (rx # frame /\ start # "none" /\ ~TimeGap(elapsed)
                /\ ~LengthInRange(frame[1])) =>
                 /\ cnt_err' = cnt_err
                 /\ state' = "DISCARD"
                 /\ UNCHANGED <<channel, cnt_rec, cnt_poll, cnt_sensor, out>>
          /\ (AtLastByte /\ ChannelSetFrame(frame)) =>
                 /\ \A i \in Channels :
                        i < NChannels(frame) =>
                            readChannel(channel', i) = FrameChannel(frame, i)
                 /\ cnt_rec' = cnt_rec + 1
                 /\ cnt_err' = cnt_err]_vars

\* one frame was rejected at its length byte, and a valid channel-set frame
\* has been read and decoded
C3_Witness ==
    /\ scenario = "servo"
    /\ cnt_err = 1
    /\ cnt_rec = 1
    /\ ReadAsFrame
    /\ ChannelSetFrame(frame)
    /\ NChannels(frame) = 2
    /\ readChannel(channel, 0) = FrameChannel(frame, 0)
    /\ readChannel(channel, 1) = FrameChannel(frame, 1)

-----------------------------------------------------------------------------
(* C4: round trip of a sensor value.  setSensorMeasurement(adr, v) for a
   registered adr stores v, and a valid value poll for a registered adr with
   telemetry enabled makes loop() write exactly
   [0x06, 0xA0+adr, v mod 256, v div 256, ckLow, ckHigh], with
   ckLow + 256*ckHigh = (0xFFFF - sum of the first four bytes) mod 2^16,
   and increases the sensor-poll counter by 1. *)

WithChecksum(bytes) ==
    LET ck == (65535 - Sum(bytes)) % 65536
    IN  bytes \o <<ck % 256, ck \div 256>>

Addresses == 1..SENSORMAX

C4_ValueRoundTrip ==
    [][\A adr \in Addresses :
          /\ \A v \in MeasValues(scenario) :
                 (adr <= sensorCount /\ rx' = rx /\ SetStep(adr, v)) =>
                     At(sensorValue', adr) = v
          /\ (LoopStep /\ AtLastByte /\ enablesensor /\ adr <= sensorCount
                /\ frame = <<4, 160 + adr>> \o SubSeq(frame, 3, 4)
                /\ ValidFrame(frame)) =>
                 /\ out' = out \o WithChecksum(<<6, 160 + adr,
                                                At(sensorValue, adr) % 256,
                                                At(sensorValue, adr) \div 256>>)
                 /\ cnt_sensor' = cnt_sensor + 1]_vars

\* the value 0x1234 was set for sensor 1, polled, and answered
C4_Witness ==
    /\ ReadAsFrame
    /\ frame = PollFrame(PROTOCOL_COMMAND_VALUE, 1)
    /\ At(sensorValue, 1) = 4660
    /\ out = <<6, 161, 52, 18, 18, 255>>
    /\ cnt_sensor = 1

-----------------------------------------------------------------------------
(* C5: for a registered address adr with telemetry enabled, a valid discover
   poll makes loop() write exactly [0x04, 0x80+adr, ckLow, ckHigh] with
   ckLow + 256*ckHigh = 0xFFFF - (0x04 + 0x80 + adr), and increases the poll
   counter by 1. *)

C5_DiscoverReply ==
    [][\A adr \in Addresses :
          (LoopStep /\ AtLastByte /\ enablesensor /\ adr <= sensorCount
             /\ frame = <<4, 128 + adr>> \o SubSeq(frame, 3, 4)
             /\ ValidFrame(frame)) =>
              /\ out' = out \o <<4, 128 + adr,
                                 (65535 - (4 + 128 + adr)) % 256,
                                 (65535 - (4 + 128 + adr)) \div 256>>
              /\ cnt_poll' = cnt_poll + 1]_vars

\* three sensors registered, a discover poll for address 2 answered 04 82 79 FF
C5_Witness ==
    /\ sensorCount = 3
    /\ ReadAsFrame
    /\ frame = PollFrame(PROTOCOL_COMMAND_DISCOVER, 2)
    /\ out = <<4, 130, 121, 255>>
    /\ cnt_poll = 1

-----------------------------------------------------------------------------
(* C6: in every parser state a byte read after a timing gap is taken as the
   length byte of a new frame attempt, and the partially received frame
   before the gap contributes nothing to the decoding, checksum or dispatch of
   the frame after the gap: what a valid frame that began by abandoning a
   partial frame does is fixed by that frame and the store alone. *)
C6_GapStartsNewFrame ==
    [][LoopStep =>
          /\ TimeGap(elapsed) =>
                 IF LengthInRange(Head(rx))
                 THEN /\ state' = "GET_DATA"
                      /\ ptr' = 0
                      /\ len' = Head(rx) - 3
                      /\ chksum' = 65535 - Head(rx)
                 ELSE state' = "DISCARD"
          /\ (start = "midframe" /\ ~TimeGap(elapsed) /\ Len(rx) = 1
                /\ ValidFrame(frame)) =>
                 /\ state = "GET_CHKSUMH"
                 /\ ChecksumMatches(chksum, Head(rx), lchksum)
                 /\ cnt_rec' = cnt_rec + (IF frame[2] = 64 THEN 1 ELSE 0)
                 /\ \A i \in Channels :
                        readChannel(channel', i) =
                            IF frame[2] = 64 /\ 2 * i + 6 <= Len(frame)
                            THEN FrameChannel(frame, i)
                            ELSE readChannel(channel, i)]_vars

\* C6, the part the code keeps: the gap restarts the reader in every state,
\* and the checksum and dispatch of the frame after it are that frame's own
C6_RestartAndChecksum ==
    [][LoopStep =>
          /\ TimeGap(elapsed) =>
                 IF LengthInRange(Head(rx))
                 THEN /\ state' = "GET_DATA"
                      /\ ptr' = 0
                      /\ len' = Head(rx) - 3
                      /\ chksum' = 65535 - Head(rx)
                 ELSE state' = "DISCARD"
          /\ (start = "midframe" /\ ~TimeGap(elapsed) /\ Len(rx) = 1
                /\ ValidFrame(frame)) =>
                 /\ state = "GET_CHKSUMH"
                 /\ ChecksumMatches(chksum, Head(rx), lchksum)
                 /\ cnt_rec' = cnt_rec + (IF frame[2] = 64 THEN 1 ELSE 0)]_vars

-----------------------------------------------------------------------------
(* C7: no reply frame this object writes (discover, type or value reply) is
   answered when its bytes are fed back into the reader, even as a fresh
   frame after a timing gap. *)
C7_EchoNeverAnswered ==
    [][(LoopStep /\ looped) => out' = out]_vars

(* C7 as amended: a type or value reply (length byte 0x06, payload length 3)
   fed back is never answered, even as a fresh frame after a timing gap, and
   no reply fed back without a timing gap before its first byte is answered;
   a discover reply (length byte 0x04) fed back as a fresh frame after a
   timing gap is read as a discover poll and answered by the same four
   bytes again. *)
C7_EchoAnsweredOnlyDiscover ==
    [][(LoopStep /\ looped) =>
          /\ frame[1] = 6 => out' = out
          /\ start = "none" => out' = out
          /\ (frame[1] = 4 /\ AtLastByte /\ enablesensor
                /\ LowNibble(frame[2]) <= sensorCount) => out' = out \o frame
          /\ out' # out => (frame[1] = 4 /\ AtLastByte /\ out' = out \o frame)]_vars

\* a type or value reply came back after a timing gap, was read to its end
\* as one frame, and nothing was written
C7_Witness ==
    /\ looped
    /\ ReadAsFrame
    /\ frame[1] = 6
    /\ start = "idle"
    /\ out = << >>

-----------------------------------------------------------------------------
(* C8: after the checksum high byte of a frame the reader is in DISCARD,
   whether the checksum matched or not; every byte that follows without a
   timing gap is ignored (no channel, counter, parser field or output
   changes), so a second frame sent back-to-back is not seen; a new frame is
   started only by a byte read after a timing gap. *)
C8_DiscardUntilGap ==
    [][LoopStep =>
          /\ (state = "GET_CHKSUMH" /\ ~TimeGap(elapsed)) => state' = "DISCARD"
          /\ (state = "DISCARD" /\ ~TimeGap(elapsed)) =>
                 UNCHANGED <<parserVars, channel, registryVars, counterVars, out>>
          /\ (state' = "GET_DATA" /\ ptr' = 0) => TimeGap(elapsed)
          /\ (channel' # channel \/ out' # out \/ cnt_rec' # cnt_rec) =>
                 (state = "GET_CHKSUMH" /\ state' = "DISCARD")]_vars

\* after one channel-set frame was decoded, a second valid one with another
\* value was read to its end without a timing gap and changed nothing
C8_Witness ==
    /\ rx = << >>
    /\ ChannelSetFrame(frame)
    /\ NChannels(frame) = 1
    /\ start = "none"
    /\ state = "DISCARD"
    /\ elapsed = 0
    /\ cnt_rec = 1
    /\ cnt_err = 0
    /\ readChannel(channel, 0) = 1499
    /\ FrameChannel(frame, 0) = 1000

-----------------------------------------------------------------------------
(* C9: setSensorMeasurement(adr, value) changes no state when adr is outside
   1..sensorCount (address 0 included); for adr in 1..sensorCount it
   overwrites the value of that sensor and leaves every other sensor value,
   every sensor type and the sensor count unchanged. *)
C9_SetSensorMeasurement ==
    [][\A adr \in MeasAddrs(scenario), v \in MeasValues(scenario) :
          SetStep(adr, v) =>
              IF 1 <= adr /\ adr <= sensorCount
              THEN /\ At(sensorValue', adr) = v
                   /\ \A a \in 0..SENSORMAX :
                          a # adr => At(sensorValue', a) = At(sensorValue, a)
                   /\ UNCHANGED <<sensorCount, sensorType>>
              ELSE UNCHANGED vars]_vars

\* C9, the part the code keeps: addresses above sensorCount change nothing,
\* registered addresses overwrite their own value only
C9_ExceptAddressZero ==
    [][\A adr \in MeasAddrs(scenario), v \in MeasValues(scenario) :
          (SetStep(adr, v) /\ adr # 0) =>
              IF adr <= sensorCount
              THEN /\ At(sensorValue', adr) = v
                   /\ \A a \in 0..SENSORMAX :
                          a # adr => At(sensorValue', a) = At(sensorValue, a)
                   /\ UNCHANGED <<sensorCount, sensorType>>
              ELSE UNCHANGED vars]_vars

-----------------------------------------------------------------------------
(* C10: the sensor count never exceeds SENSORMAX; addSensor(type) below
   capacity assigns address sensorCount + 1, stores type there and returns
   that address; at capacity it changes no sensor entry and returns the
   unchanged count; no call changes the type of an existing entry. *)
C10_AddSensor ==
    [][\A type \in SensorTypes(scenario, sensorCount) :
          AddStep(type) =>
              LET ret == addSensor(sensorCount, sensorType, type).ret
              IN  /\ sensorCount' <= SENSORMAX
                  /\ \A a \in 1..sensorCount : At(sensorType', a) = At(sensorType, a)
                  /\ IF sensorCount < SENSORMAX
                     THEN /\ sensorCount' = sensorCount + 1
                          /\ At(sensorType', sensorCount + 1) = type
                          /\ ret = sensorCount + 1
                     ELSE /\ UNCHANGED registryVars
                          /\ ret = sensorCount]_vars

\* the registry is full, with both types in it
C10_Witness ==
    /\ sensorCount = SENSORMAX
    /\ At(sensorType, 1) = 3
    /\ At(sensorType, 2) = 1
    /\ At(sensorType, SENSORMAX) = 3

-----------------------------------------------------------------------------
(* C11: a sensor request with a correct checksum that has an unrecognised
   sub-command (high nibble not 0x80, 0x90, 0xA0), an address outside
   1..sensorCount, a payload length other than 1, or that arrives with
   telemetry disabled, is silently ignored: loop() writes no byte and changes
   no counter, no channel and no sensor entry. *)

\* f is a checksum-valid frame, not a channel-set frame, that is malformed as
\* a sensor request for the registry and the telemetry switch as they are now
MalformedRequest(f) ==
    /\ ValidFrame(f)
    /\ f[2] # 64
    /\ \/ f[2] \div 16 \notin {8, 9, 10}
       \/ f[2] % 16 = 0
       \/ f[2] % 16 > sensorCount
       \/ Len(f) # 4
       \/ ~enablesensor

C11_MalformedRequestIgnored ==
    [][(LoopStep /\ start' # "none" /\ MalformedRequest(frame)) =>
          /\ out' = out
          /\ UNCHANGED <<counterVars, channel, registryVars>>]_vars

\* with sensor 1 registered and telemetry enabled, a request for sensor 1 with
\* the unknown sub-command 0xB0 was read to its end as one frame: no output,
\* no count
C11_Witness ==
    /\ ReadAsFrame
    /\ frame = PollFrame(176, 1)
    /\ MalformedRequest(frame)
    /\ sensorCount = 1
    /\ enablesensor
    /\ state = "DISCARD"
    /\ elapsed = 0
    /\ out = << >>
    /\ EventCount = 0

-----------------------------------------------------------------------------
(* C12: for a registered address adr with telemetry enabled, a valid type
   poll makes loop() write exactly
   [0x06, 0x90+adr, sensorType[adr], 0x02, ckLow, ckHigh], with
   ckLow + 256*ckHigh = (0xFFFF - sum of the first four bytes) mod 2^16, and
   changes no counter; sensorType[adr] is the type given to the addSensor
   call that returned adr: that call stores it, and no step changes the type
   of a registered address afterwards. *)
C12_TypeReply ==
    [][/\ \A adr \in Addresses :
             (LoopStep /\ AtLastByte /\ enablesensor /\ adr <= sensorCount
                /\ frame = <<4, 144 + adr>> \o SubSeq(frame, 3, 4)
                /\ ValidFrame(frame)) =>
                 /\ out' = out \o WithChecksum(<<6, 144 + adr,
                                                At(sensorType, adr), 2>>)
                 /\ UNCHANGED counterVars
       /\ \A type \in SensorTypes(scenario, sensorCount) :
             (AddStep(type) /\ sensorCount' # sensorCount) =>
                 /\ addSensor(sensorCount, sensorType, type).ret = sensorCount'
                 /\ At(sensorType', sensorCount') = type
       /\ \A adr \in 1..sensorCount :
             At(sensorType', adr) = At(sensorType, adr)]_vars

\* sensors of type 1 and 3 registered at addresses 1 and 2, a type poll for
\* address 2 answered 06 92 03 02 62 FF, no counter changed
C12_Witness ==
    /\ sensorCount = 2
    /\ At(sensorType, 1) = 1
    /\ At(sensorType, 2) = 3
    /\ ReadAsFrame
    /\ frame = PollFrame(PROTOCOL_COMMAND_TYPE, 2)
    /\ out = <<6, 146, 3, 2, 98, 255>>
    /\ EventCount = 0

-----------------------------------------------------------------------------
(* C13: readChannel(index) returns 0 for every index at or above
   PROTOCOL_CHANNELS and, below it, the value written by the most recent
   checksum-valid channel-set frame; it changes no parser, channel, sensor or
   counter state. *)

\* The frame as the reader has assembled it when the next byte read is its
\* checksum high byte: length byte, payload, received checksum.
ReaderFrame == <<len + 3>> \o SubSeq(buffer, 1, len) \o <<lchksum, Head(rx)>>

\* the step consumes the checksum high byte of a checksum-valid channel-set
\* frame
ChannelFrameStep ==
    /\ LoopStep
    /\ state = "GET_CHKSUMH"
    /\ ~TimeGap(elapsed)
    /\ ValidFrame(ReaderFrame)
    /\ ReaderFrame[2] = 64

C13_ReadChannel ==
    [][/\ returned' # << >> =>
             /\ returned'[2] = IF returned'[1] >= 10 THEN 0
                               ELSE channel[returned'[1] + 1]
             /\ UNCHANGED <<parserVars, channel, registryVars, counterVars,
                            enablesensor, elapsed, rx, out>>
       /\ channel' # channel => ChannelFrameStep
       /\ ChannelFrameStep =>
             \A i \in Channels :
                 channel'[i + 1] = buffer[2 * i + 2] + 256 * buffer[2 * i + 3]
       /\ (LoopStep /\ AtLastByte /\ ChannelSetFrame(frame)) =>
             \A i \in Channels :
                 i < NChannels(frame) => channel'[i + 1] = FrameChannel(frame, i)]_vars

\* after the example frame was decoded, readChannel(9) returned 0x5DC
C13_Witness ==
    /\ returned = <<9, 1500>>
    /\ ReadAsFrame
    /\ frame = ExampleFrame
    /\ cnt_rec = 1

-----------------------------------------------------------------------------
(* C14: a frame whose received checksum does not match is silently dropped:
   cnt_err, cnt_rec, cnt_poll and cnt_sensor are unchanged, nothing is
   written, and the reader ends in DISCARD; cnt_err changes only when a
   length byte is rejected. *)
C14_MismatchDropped ==
    [][/\ (LoopStep /\ state = "GET_CHKSUMH" /\ ~TimeGap(elapsed)
             /\ ~ValidFrame(ReaderFrame)) =>
             /\ UNCHANGED counterVars
             /\ out' = out
             /\ state' = "DISCARD"
       /\ (LoopStep /\ AtLastByte /\ CorruptedFrame(frame)) =>
             /\ UNCHANGED counterVars
             /\ out' = out
             /\ state' = "DISCARD"
       /\ cnt_err' # cnt_err =>
             /\ LoopStep
             /\ TimeGap(elapsed)
             /\ ~LengthInRange(Head(rx))
             /\ cnt_err' = cnt_err + 1]_vars

\* a value poll for a registered sensor, telemetry enabled, with one bit of
\* its checksum flipped, was read to its end as one frame: nothing counted,
\* nothing written
C14_Witness ==
    /\ ReadAsFrame
    /\ CorruptedFrame(frame)
    /\ frame[2] = PROTOCOL_COMMAND_VALUE + 1
    /\ enablesensor
    /\ sensorCount >= 1
    /\ state = "DISCARD"
    /\ elapsed = 0
    /\ out = << >>
    /\ EventCount = 0

-----------------------------------------------------------------------------
(* C15: every iteration of loop() consumes exactly one input byte and loop()
   returns once no byte is available, so the input is drained; a telemetry
   reply is written whole (payload and both checksum bytes) in the step that
   consumes the poll's checksum high byte, and at most once per frame: in
   the step that consumes the last byte of the frame. *)

\* the bytes the step appends to the output
Written == SubSeq(out', Len(out) + 1, Len(out'))

\* the step appends bytes to the output
WriteStep == Len(out') > Len(out) /\ SubSeq(out', 1, Len(out)) = out

C15_LoopDrainsAndRepliesAtOnce ==
    /\ [][/\ LoopIteration => (rx # << >> /\ Len(rx') = Len(rx) - 1)
          /\ (channel' # channel \/ counterVars' # counterVars
                \/ state' \notin {state, "DISCARD"}) => LoopIteration
          /\ (out' # out /\ out' # << >>) =>
                /\ WriteStep
                /\ LoopIteration
                /\ state = "GET_CHKSUMH"
                /\ state' = "DISCARD"
                /\ AtLastByte
                /\ Len(Written) \in {4, 6}
                /\ ValidFrame(Written)]_vars
    /\ (rx # << >> /\ EventCount < MaxEvents /\ ~Jitter(scenario)) ~> (rx = << >>)

\* a value poll has been consumed to its last byte and its six reply bytes
\* are in the output, the input is drained
C15_Witness ==
    /\ rx = << >>
    /\ ReadAsFrame
    /\ ~looped
    /\ frame = PollFrame(PROTOCOL_COMMAND_VALUE, 2)
    /\ Len(out) = 6
    /\ ValidFrame(out)
    /\ out[2] = PROTOCOL_COMMAND_VALUE + 2
    /\ state = "DISCARD"

-----------------------------------------------------------------------------
(* C16: a frame that starts after a timing gap with an accepted length byte L
   is dispatched (channel decode or sensor reply) if and only if its two
   checksum bytes, low byte first, equal
   (0xFFFF - (L + sum of the L-3 command/payload bytes)) mod 2^16; the
   accumulator starts from 0xFFFF - L and is reduced by wrapping 16-bit
   subtraction. *)

\* the step decodes channels or writes a reply
Dispatched == cnt_rec' = cnt_rec + 1 \/ WriteStep

\* f is a channel-set frame or a sensor request the reader answers
Dispatchable(f) ==
    \/ f[2] = 64
    \/ /\ enablesensor
       /\ Len(f) = 4
       /\ f[2] \div 16 \in {8, 9, 10}
       /\ f[2] % 16 >= 1
       /\ f[2] % 16 <= sensorCount

C16_DispatchIffChecksum ==
    [][LoopStep =>
          /\ (rx = frame /\ TimeGap(elapsed) /\ LengthInRange(frame[1])) =>
                 chksum' = 65535 - frame[1]
          /\ (state = "GET_DATA" /\ ~TimeGap(elapsed)) =>
                 chksum' = (chksum + 65536 - Head(rx)) % 65536
          /\ (AtLastByte /\ LengthInRange(frame[1]) /\ Len(frame) = frame[1]) =>
                 LET L == frame[1]
                     expected == (65536 + 65535 - Sum(SubSeq(frame, 1, L - 2))) % 65536
                     received == frame[L - 1] + 256 * frame[L]
                 IN  /\ chksum = expected
                     /\ Dispatched => received = expected
                     /\ (received = expected /\ Dispatchable(frame)) => Dispatched
                     /\ received # expected =>
                            UNCHANGED <<channel, counterVars, out>>]_vars

\* the example frame (checksum bytes DA F3) was read with the accumulator at
\* 0xF3DA and decoded
C16_Witness ==
    /\ ReadAsFrame
    /\ frame = ExampleFrame
    /\ chksum = 62426
    /\ lchksum = 218
    /\ cnt_rec = 1
    /\ readChannel(channel, 0) = 1499

-----------------------------------------------------------------------------
(* C17: loop() never changes the sensor count, a sensor type or a sensor
   value; the registry is written by the host's calls only.  loop() changes
   a channel value only in the step that consumes the checksum high byte of
   a checksum-valid channel-set frame; no other step writes the channels. *)
C17_FrameEffects ==
    [][/\ LoopStep => UNCHANGED registryVars
       /\ registryVars' # registryVars =>
             /\ rx' = rx
             /\ UNCHANGED <<parserVars, elapsed, channel, counterVars, out>>
             /\ \/ \E type \in {1, 3} : AddStep(type)
                \/ \E adr \in 0..255, v \in MeasValues(scenario) : SetStep(adr, v)
       /\ ~ChannelFrameStep => channel' = channel]_vars

\* with a sensor registered, a valid channel-set frame has set channel 0 and
\* left the registry as the host wrote it
C17_Witness ==
    /\ scenario = "ignored"
    /\ sensorCount = 1
    /\ At(sensorType, 1) = 1
    /\ ReadAsFrame
    /\ frame = ChannelFrame(<<1000>>)
    /\ readChannel(channel, 0) = 1000
    /\ cnt_rec = 1

-----------------------------------------------------------------------------
(* C18: whenever a frame has been fully consumed (checksum high byte
   processed, matching or not), the parser state is back at the values set
   by begin(): buffer offset, expected payload length, checksum accumulator
   and stored checksum low byte are all 0. *)
C18_ParserResetAfterFrame ==
    [][(LoopStep /\ state = "GET_CHKSUMH" /\ ~TimeGap(elapsed)) =>
          /\ state' = "DISCARD"
          /\ ptr' = 0
          /\ len' = 0
          /\ chksum' = 0
          /\ lchksum' = 0]_vars

\* C18, the part the code keeps: the state tag is back at begin()'s DISCARD,
\* and the offset has reached the payload length
C18_StateResetAfterFrame ==
    [][(LoopStep /\ state = "GET_CHKSUMH" /\ ~TimeGap(elapsed)) =>
          /\ state' = "DISCARD"
          /\ ptr' = len'
          /\ UNCHANGED <<ptr, len, lchksum>>]_vars

-----------------------------------------------------------------------------
(* C19: the payload buffer is written only inside its bounds.  Whenever the
   reader is in the data state, 1 <= len <= 0x20 - 3 = 29 and ptr < len; after
   every step ptr <= len; the length state accepts a byte v exactly when
   3 < v <= 0x20 and then sets len = v - 3 and ptr = 0; the data state ends
   after exactly len bytes. *)
C19_BufferBounds ==
    [][/\ state = "GET_DATA" => (1 <= len /\ len <= 29 /\ ptr < len)
       /\ state' = "GET_DATA" => (1 <= len' /\ len' <= 29 /\ ptr' < len')
       /\ ptr <= len
       /\ ptr' <= len'
       /\ buffer' # buffer =>
             /\ LoopStep
             /\ state = "GET_DATA"
             /\ ptr >= 0
             /\ ptr < 29
             /\ buffer' = [buffer EXCEPT ![ptr + 1] = Head(rx)]
       /\ (LoopStep /\ TimeGap(elapsed)) =>
             IF 3 < Head(rx) /\ Head(rx) <= 32
             THEN state' = "GET_DATA" /\ len' = Head(rx) - 3 /\ ptr' = 0
             ELSE state' = "DISCARD" /\ UNCHANGED <<ptr, len>>
       /\ (LoopStep /\ ~TimeGap(elapsed) /\ state = "GET_DATA") =>
             /\ ptr' = ptr + 1
             /\ len' = len
             /\ state' = IF ptr' = len THEN "GET_CHKSUML" ELSE "GET_DATA"]_vars

\* the longest frame (length byte 0x20): its 29th payload byte has been
\* written to the last slot used, buffer[28], and the data state has ended
C19_Witness ==
    /\ frame = ExampleFrame
    /\ start # "none"
    /\ Len(rx) = 2
    /\ state = "GET_CHKSUML"
    /\ len = 29
    /\ ptr = 29
    /\ At(buffer, 28) = 5

-----------------------------------------------------------------------------
(* C20: begin() puts the reader in DISCARD, so after begin() and before the
   first byte that arrives with a timing gap since the previous byte (or
   since begin()), every input byte is ignored: no channel changes, no
   counter changes and no output is written, even if the bytes form a
   complete valid frame. *)
C20_BeginDiscards ==
    [][/\ (\E en \in BOOLEAN : Begin(en)) => (state' = "DISCARD" /\ fresh')
       /\ fresh => state = "DISCARD"
       /\ fresh' => state' = "DISCARD"
       /\ (LoopStep /\ fresh /\ ~TimeGap(elapsed)) =>
             /\ fresh'
             /\ out' = out
             /\ UNCHANGED <<parserVars, channel, counterVars, registryVars>>]_vars

\* right after begin() a complete valid channel-set frame was read without a
\* timing gap: no channel, no counter changed
C20_Witness ==
    /\ fresh
    /\ rx = << >>
    /\ frame = ChannelFrame(<<1000>>)
    /\ elapsed = 0
    /\ state = "DISCARD"
    /\ readChannel(channel, 0) = 0
    /\ EventCount = 0

=============================================================================
